---- MODULE Spec2Model ----
(***************************************************************************)
(* Model of the GradCafe pipeline: the incremental scraper                 *)
(* (module_2/scrape.py) and the database loader (module_5/src/load_data.py *)
(* with the schema of module_5/src/create_schema.py).                      *)
(*                                                                         *)
(* Text is modelled structurally.  A date string is a record               *)
(*   [layout, a, b, c]                                                     *)
(* whose layout names the shape of the text and whose a, b, c are the      *)
(* three numbers in the order they are written:                            *)
(*   "long"  : <full month name a> b, c        (September 14, 2025)        *)
(*   "abbr"  : <abbreviated month a> b, c      (Sep 14, 2025)              *)
(*   "iso"   : a-b-c                           (2025-09-14)                *)
(*   "slash" : a/b/c                           (09/14/2025)                *)
(*   "dmon"  : a-<abbreviated month b>-c       (14-Sep-2025)               *)
(*   "junk"  : text no format matches                                      *)
(*   "none"  : None / the empty string / a missing file                    *)
(* A calendar date is a tuple <<year, month, day>>; NoDate is Python None. *)
(***************************************************************************)
EXTENDS Integers, Sequences, FiniteSets, TLC

\* ------------------------------------------------------------------ dates

NoDate == <<0, 0, 0>>

NoStr == [layout |-> "none", a |-> 0, b |-> 0, c |-> 0]

Str(l, x, y, z) == [layout |-> l, a |-> x, b |-> y, c |-> z]

\* date.__lt__ : lexicographic on (year, month, day)
DateLT(d, e) ==
    \/ d[1] < e[1]
    \/ d[1] = e[1] /\ d[2] < e[2]
    \/ d[1] = e[1] /\ d[2] = e[2] /\ d[3] < e[3]

DateLE(d, e) == d = e \/ DateLT(d, e)

IsLeap(y) == (y % 4 = 0 /\ y % 100 # 0) \/ y % 400 = 0

DaysIn(y, m) ==
    IF m \in {4, 6, 9, 11} THEN 30
    ELSE IF m = 2 THEN (IF IsLeap(y) THEN 29 ELSE 28)
    ELSE 31

\* datetime.date(y, m, d) succeeds only for a real calendar day
ValidYMD(y, m, d) ==
    /\ y >= 1 /\ y <= 9999
    /\ m >= 1 /\ m <= 12
    /\ d >= 1 /\ d <= DaysIn(y, m)

MIN_OK == <<2000, 1, 1>>
MAX_OK == <<2030, 12, 31>>

\* faulty variant of in_range: the bounds are not tested
in_range_open(d) == d # NoDate

\* _in_range
in_range(d) == d # NoDate /\ DateLE(MIN_OK, d) /\ DateLE(d, MAX_OK)

\* The strptime formats, by the directive string of the source.
FMT_LONG == "%B %d, %Y"
FMT_ABBR == "%b %d, %Y"
FMT_ISO == "%Y-%m-%d"
FMT_SLASH == "%m/%d/%Y"
FMT_DMON == "%d-%b-%Y"

\* Whether the text has the shape the format's pattern matches.  "May" is
\* both the full and the abbreviated name of month 5.
ShapeMatches(fmt, s) ==
    CASE fmt = FMT_LONG -> s.layout = "long" \/ (s.layout = "abbr" /\ s.a = 5)
      [] fmt = FMT_ABBR -> s.layout = "abbr" \/ (s.layout = "long" /\ s.a = 5)
      [] fmt = FMT_ISO -> s.layout = "iso"
      [] fmt = FMT_SLASH -> s.layout = "slash"
      [] fmt = FMT_DMON -> s.layout = "dmon"
      [] OTHER -> FALSE

\* The <<year, month, day>> the format reads out of the text's three numbers.
FieldsOf(fmt, s) ==
    CASE fmt = FMT_ISO -> <<s.a, s.b, s.c>>
      [] fmt = FMT_DMON -> <<s.c, s.b, s.a>>
      [] OTHER -> <<s.c, s.a, s.b>>

\* datetime.strptime(s, fmt).date(), NoDate standing for ValueError
strptime(s, fmt) ==
    LET f == FieldsOf(fmt, s)
    IN IF ShapeMatches(fmt, s) /\ ValidYMD(f[1], f[2], f[3]) THEN f ELSE NoDate

\* d.strftime("%Y-%m-%d")
strftime_iso(d) == Str("iso", d[1], d[2], d[3])

\* faulty variant of ADDED_ON_FORMATS: the abbreviated month first
ADDED_ON_FORMATS_abbr_first ==
    <<FMT_ABBR, FMT_LONG, FMT_ISO, FMT_SLASH, FMT_DMON>>

ADDED_ON_FORMATS == <<FMT_LONG, FMT_ABBR, FMT_ISO, FMT_SLASH, FMT_DMON>>

RECURSIVE parse_from(_, _)
parse_from(s, i) ==
    IF i > Len(ADDED_ON_FORMATS) THEN NoDate
    ELSE LET d == strptime(s, ADDED_ON_FORMATS[i])
         IN IF d # NoDate
            THEN (IF in_range(d) THEN d ELSE NoDate)
            ELSE parse_from(s, i + 1)

parse_added_on(s) == IF s = NoStr THEN NoDate ELSE parse_from(s, 1)

\* date - timedelta(days = n)
PrevDay(d) ==
    IF d[3] > 1 THEN <<d[1], d[2], d[3] - 1>>
    ELSE IF d[2] > 1 THEN <<d[1], d[2] - 1, DaysIn(d[1], d[2] - 1)>>
    ELSE <<d[1] - 1, 12, 31>>

RECURSIVE MinusDays(_, _)
MinusDays(d, n) == IF n = 0 THEN d ELSE MinusDays(PrevDay(d), n - 1)

DEFAULT_BACKFILL_DAYS == 7

\* --------------------------------------------------------------- bounds

MaxFeed == 3

PageSize == 2

MaxRuns == 2

\* requests that fail (non-200 or an error), over all runs
MaxFailures == 1

\* --------------------------------------------------------------- upstream

\* The site's entries, by detail url.  card is the text after "Added on" in
\* the listing card, dd the value of the detail page's "Added on" <dt>/<dd>
\* pair, txt the text after "Added on" elsewhere on the detail page.
Catalog ==
    << [card |-> NoStr, dd |-> NoStr, txt |-> Str("iso", 2025, 1, 5)],
       [card |-> Str("long", 9, 7, 2025), dd |-> NoStr, txt |-> NoStr],
       [card |-> Str("abbr", 2, 1, 2025), dd |-> Str("slash", 9, 10, 2025),
        txt |-> NoStr],
       [card |-> NoStr, dd |-> Str("iso", 2031, 1, 1), txt |-> NoStr] >>

Urls == DOMAIN Catalog

\* The listing, newest first: every url at most once.
Feeds ==
    { f \in UNION { [1..n -> Urls] : n \in 0..MaxFeed } :
        \A i, j \in DOMAIN f : i # j => f[i] # f[j] }

\* The "See More" links of listing page p (pages start at 1).
PageLinks(f, p) ==
    LET lo == (p - 1) * PageSize + 1
        hi == IF p * PageSize < Len(f) THEN p * PageSize ELSE Len(f)
    IN IF lo > Len(f) THEN <<>> ELSE SubSeq(f, lo, hi)

\* What http.request can do: answer 200, answer another status (also the
\* last response once the status retries are used up, raise_on_status being
\* False), or raise MaxRetryError (timeout or connection failure after the
\* connect/read retries).
Outcomes == {"ok", "non200", "raise"}

Today == <<2025, 9, 14>>

CliSinces == {NoStr, Str("iso", 2025, 1, 1), Str("slash", 1, 1, 2025)}

InitialStateFiles == {NoStr, Str("iso", 2025, 1, 5), Str("junk", 0, 0, 0)}

\* --------------------------------------------------------------- scraper

VARIABLES
    feed,          \* upstream content
    stateFile,     \* last_run.txt: its text, NoStr when the file is missing
    jsonl,         \* the output file: the records appended, in order
    pc,            \* "idle" | "list" | "links" | "summary" | "exited"
    runNo,         \* number of runs started
    since,         \* the run's cutoff
    appended, min_date, max_date, page, links, idx, page_had_new,
    f_open,        \* f_out is open
    stdout,        \* lines printed by the run
    exitCode,      \* exit status of the process (-1 while running)
    nListReq,      \* listing requests issued in the run
    nDetailReq,    \* detail requests issued in the run
    lastList,      \* result of the latest listing request of the run
    firstList,     \* result of the run's first listing request
    wmBefore,      \* stateFile when the run started
    cutoffs,       \* the cutoff of every run, by run number
    lastDetail,    \* result of the latest detail request of the run
    prevExit,      \* exit status of the run before this one (-1: none)
    failures,      \* requests that failed so far, over all runs
    cli_since,     \* args.since of the run (NoStr: not given)
    slept          \* time.sleep(sleep_s) has run since the latest detail request

scrapeVars ==
    <<feed, stateFile, jsonl, pc, runNo, since, appended, min_date, max_date,
      page, links, idx, page_had_new, f_open, stdout, exitCode, nListReq,
      nDetailReq, lastList, firstList, wmBefore, cutoffs, lastDetail, prevExit,
      failures, cli_since, slept>>

Line(k, n) == [kind |-> k, n |-> n]

\* faulty variant of resolve_since: the state file is looked at first
resolve_since_file_first(cli, file) ==
    IF file # NoStr /\ strptime(file, FMT_ISO) # NoDate THEN strptime(file, FMT_ISO)
    ELSE IF cli # NoStr /\ strptime(cli, FMT_ISO) # NoDate THEN strptime(cli, FMT_ISO)
    ELSE MinusDays(Today, DEFAULT_BACKFILL_DAYS)

\* resolve_since: the lines it prints
resolve_since_prints(cli, file) ==
    IF cli # NoStr /\ strptime(cli, FMT_ISO) # NoDate THEN <<>>
    ELSE (IF cli # NoStr THEN <<Line("invalid_since", 0)>> ELSE <<>>)
         \o (IF file # NoStr /\ strptime(file, FMT_ISO) = NoDate
             THEN <<Line("state_warning", 0)>> ELSE <<>>)

\* resolve_since
resolve_since(cli, file) ==
    IF cli # NoStr /\ strptime(cli, FMT_ISO) # NoDate THEN strptime(cli, FMT_ISO)
    ELSE IF file # NoStr /\ strptime(file, FMT_ISO) # NoDate THEN strptime(file, FMT_ISO)
    ELSE MinusDays(Today, DEFAULT_BACKFILL_DAYS)

\* re.search(r"\bAdded on\s+([A-Za-z]+\s+\d{1,2},\s*\d{4})", card_text):
\* a word, a day, a comma, a year
card_added_of(e) ==
    IF e.card.layout \in {"long", "abbr"} THEN parse_added_on(e.card) ELSE NoDate

\* find_added_on_detail: the <dd> value first, else the three searches of
\* the page text (month-name, ISO, slash forms)
find_added_on_detail(e) ==
    IF e.dd # NoStr THEN e.dd
    ELSE IF e.txt.layout \in {"long", "abbr", "iso", "slash"} THEN e.txt
    ELSE NoStr

\* faulty variant of resolve_date: the card's date takes precedence
resolve_date_card_first(e) ==
    IF card_added_of(e) # NoDate THEN card_added_of(e)
    ELSE parse_added_on(find_added_on_detail(e))

\* date_added: the detail page's date, else the card's
resolve_date(e) ==
    LET d == parse_added_on(find_added_on_detail(e))
    IN IF d = NoDate /\ card_added_of(e) # NoDate THEN card_added_of(e) ELSE d

\* faulty variant of track_max: the first date is kept
track_max_first(cur, d) == IF cur = NoDate THEN d ELSE cur

\* max_date after a record dated d
track_max(cur, d) ==
    IF DateLE(MIN_OK, d) /\ DateLE(d, MAX_OK)
    THEN (IF cur = NoDate \/ DateLT(cur, d) THEN d ELSE cur)
    ELSE cur

\* min_date after a record dated d
track_min(cur, d) ==
    IF DateLE(MIN_OK, d) /\ DateLE(d, MAX_OK)
    THEN (IF cur = NoDate \/ DateLT(d, cur) THEN d ELSE cur)
    ELSE cur

\* faulty variant of below_cutoff: no date is before the cutoff
below_cutoff_never(d, s) == FALSE

\* date_added < since
below_cutoff(d, s) == DateLT(d, s)

\* faulty variant of finished_line: the page number is printed as the count
finished_line_page(p, n) == Line("finished", p)

\* print(f"\nFinished page {page}, appended {appended} records so far.")
finished_line(p, n) == Line("finished", n)

\* faulty variant of after_no_links: continue instead of break
after_no_links_continue == "list"

\* where the loop goes on a page without links: break
after_no_links == "summary"

\* __main__: resolve the cutoff, then enter scrape_data
Start(cli) ==
    /\ pc \in {"idle", "exited"}
    /\ runNo < MaxRuns
    /\ runNo' = runNo + 1
    /\ since' = resolve_since(cli, stateFile)
    /\ cutoffs' = Append(cutoffs, resolve_since(cli, stateFile))
    /\ wmBefore' = stateFile
    /\ appended' = 0
    /\ min_date' = NoDate
    /\ max_date' = NoDate
    /\ page' = 1
    /\ links' = <<>>
    /\ idx' = 1
    /\ page_had_new' = FALSE
    /\ f_open' = TRUE
    /\ cli_since' = cli
    /\ stdout' = Append(resolve_since_prints(cli, stateFile), Line("cutoff", 0))
    /\ exitCode' = -1
    /\ nListReq' = 0
    /\ nDetailReq' = 0
    /\ lastList' = "none"
    /\ firstList' = "none"
    /\ lastDetail' = "none"
    /\ slept' = FALSE
    /\ prevExit' = exitCode
    /\ pc' = "list"
    /\ UNCHANGED <<feed, stateFile, jsonl, failures>>

\* faulty variant of Escape: no finally clause, the output stays open
Escape_no_close ==
    /\ f_open' = f_open
    /\ exitCode' = 1
    /\ pc' = "exited"

\* an exception leaves scrape_data: the finally clause closes the output,
\* the interpreter prints the traceback and exits with status 1
Escape ==
    /\ f_open' = FALSE
    /\ exitCode' = 1
    /\ pc' = "exited"

\* the listing request raises (retries used up)
ListRaise ==
    /\ pc = "list"
    /\ failures < MaxFailures
    /\ failures' = failures + 1
    /\ nListReq' = nListReq + 1
    /\ lastList' = "raise"
    /\ firstList' = IF page = 1 THEN "raise" ELSE firstList
    /\ stdout' = Append(stdout, Line("fetching", appended))
    /\ Escape
    /\ UNCHANGED <<feed, stateFile, jsonl, runNo, since, appended, min_date,
                   max_date, page, links, idx, page_had_new, nDetailReq,
                   wmBefore, cutoffs, cli_since, lastDetail, slept, prevExit>>

\* the listing answers another status than 200: break
ListNon200 ==
    /\ pc = "list"
    /\ failures < MaxFailures
    /\ failures' = failures + 1
    /\ nListReq' = nListReq + 1
    /\ lastList' = "non200"
    /\ firstList' = IF page = 1 THEN "non200" ELSE firstList
    /\ stdout' = stdout \o <<Line("fetching", appended), Line("http_stop", page)>>
    /\ pc' = "summary"
    /\ UNCHANGED <<feed, stateFile, jsonl, runNo, since, appended, min_date,
                   max_date, page, links, idx, page_had_new, f_open, exitCode,
                   nDetailReq, wmBefore, cutoffs, cli_since, lastDetail, slept, prevExit>>

\* the listing page has no "See More" link: break
ListNoLinks ==
    /\ pc = "list"
    /\ PageLinks(feed, page) = <<>>
    /\ nListReq' = nListReq + 1
    /\ lastList' = "nolinks"
    /\ firstList' = IF page = 1 THEN "nolinks" ELSE firstList
    /\ stdout' = stdout \o <<Line("fetching", appended), Line("nolinks_stop", page)>>
    /\ pc' = after_no_links
    /\ UNCHANGED <<feed, stateFile, jsonl, runNo, since, appended, min_date,
                   max_date, page, links, idx, page_had_new, f_open, exitCode,
                   nDetailReq, wmBefore, cutoffs, cli_since, lastDetail, slept, prevExit, failures>>

\* the listing page has links: scan them
ListOk ==
    /\ pc = "list"
    /\ PageLinks(feed, page) # <<>>
    /\ nListReq' = nListReq + 1
    /\ lastList' = "ok"
    /\ firstList' = IF page = 1 THEN "ok" ELSE firstList
    /\ stdout' = Append(stdout, Line("fetching", appended))
    /\ links' = PageLinks(feed, page)
    /\ idx' = 1
    /\ page_had_new' = FALSE
    /\ pc' = "links"
    /\ UNCHANGED <<feed, stateFile, jsonl, runNo, since, appended, min_date,
                   max_date, page, f_open, exitCode, nDetailReq, wmBefore,
                   cutoffs, cli_since, lastDetail, slept, prevExit, failures>>

AtLink == pc = "links" /\ idx <= Len(links)

CardOld(e) == card_added_of(e) # NoDate /\ below_cutoff(card_added_of(e), since)

\* the card's date is before the cutoff: no detail request
SkipByCard ==
    /\ AtLink
    /\ CardOld(Catalog[links[idx]])
    /\ idx' = idx + 1
    /\ UNCHANGED <<feed, stateFile, jsonl, pc, runNo, since, appended, min_date,
                   max_date, page, links, page_had_new, f_open, stdout,
                   exitCode, nListReq, nDetailReq, lastList, firstList,
                   wmBefore, cutoffs, cli_since, lastDetail, slept, prevExit, failures>>

\* the detail request raises (retries used up): nothing catches it
DetailRaise ==
    /\ AtLink
    /\ failures < MaxFailures
    /\ failures' = failures + 1
    /\ ~CardOld(Catalog[links[idx]])
    /\ nDetailReq' = nDetailReq + 1
    /\ lastDetail' = "raise"
    /\ slept' = FALSE
    /\ Escape
    /\ UNCHANGED <<feed, stateFile, jsonl, runNo, since, appended, min_date,
                   max_date, page, links, idx, page_had_new, stdout, nListReq,
                   lastList, firstList, wmBefore, cutoffs, cli_since, prevExit>>

\* the detail page answers another status than 200: continue
DetailNon200 ==
    /\ AtLink
    /\ failures < MaxFailures
    /\ failures' = failures + 1
    /\ ~CardOld(Catalog[links[idx]])
    /\ nDetailReq' = nDetailReq + 1
    /\ lastDetail' = "non200"
    /\ slept' = FALSE
    /\ idx' = idx + 1
    /\ UNCHANGED <<feed, stateFile, jsonl, pc, runNo, since, appended, min_date,
                   max_date, page, links, page_had_new, f_open, stdout,
                   exitCode, nListReq, lastList, firstList, wmBefore, cutoffs, cli_since, prevExit>>

Rejected(e) == resolve_date(e) = NoDate \/ below_cutoff(resolve_date(e), since)

\* the detail page answers 200 but gives no valid date, or one before the cutoff
DetailReject ==
    /\ AtLink
    /\ ~CardOld(Catalog[links[idx]])
    /\ Rejected(Catalog[links[idx]])
    /\ nDetailReq' = nDetailReq + 1
    /\ lastDetail' = "ok"
    /\ slept' = FALSE
    /\ idx' = idx + 1
    /\ UNCHANGED <<feed, stateFile, jsonl, pc, runNo, since, appended, min_date,
                   max_date, page, links, page_had_new, f_open, stdout,
                   exitCode, nListReq, lastList, firstList, wmBefore, cutoffs, cli_since,
                   prevExit, failures>>

\* the record is written, counted and tracked; then time.sleep(sleep_s), the
\* last statement of the loop body, which a continue above it skips
DetailAppend ==
    /\ AtLink
    /\ ~CardOld(Catalog[links[idx]])
    /\ ~Rejected(Catalog[links[idx]])
    /\ nDetailReq' = nDetailReq + 1
    /\ lastDetail' = "ok"
    /\ slept' = TRUE
    /\ LET d == resolve_date(Catalog[links[idx]])
       IN /\ jsonl' = Append(jsonl, [url |-> links[idx],
                                     date_added |-> strftime_iso(d),
                                     run |-> runNo])
          /\ min_date' = track_min(min_date, d)
          /\ max_date' = track_max(max_date, d)
    /\ appended' = appended + 1
    /\ page_had_new' = TRUE
    /\ idx' = idx + 1
    /\ UNCHANGED <<feed, stateFile, pc, runNo, since, page, links, f_open,
                   stdout, exitCode, nListReq, lastList, firstList, wmBefore,
                   cutoffs, cli_since, prevExit, failures>>

\* the page's links are done and none was appended: break
EndPageStop ==
    /\ pc = "links" /\ idx > Len(links)
    /\ ~page_had_new
    /\ stdout' = Append(stdout, Line("nonew_stop", page))
    /\ pc' = "summary"
    /\ UNCHANGED <<feed, stateFile, jsonl, runNo, since, appended, min_date,
                   max_date, page, links, idx, page_had_new, f_open, exitCode,
                   nListReq, nDetailReq, lastList, firstList, wmBefore,
                   cutoffs, cli_since, lastDetail, slept, prevExit, failures>>

\* faulty variant of next_page: the page number is not advanced
next_page_same(p) == p

\* page += 1
next_page(p) == p + 1

\* the page's links are done and one was appended: next page
EndPageNext ==
    /\ pc = "links" /\ idx > Len(links)
    /\ page_had_new
    /\ stdout' = Append(stdout, finished_line(page, appended))
    /\ page' = next_page(page)
    /\ pc' = "list"
    /\ UNCHANGED <<feed, stateFile, jsonl, runNo, since, appended, min_date,
                   max_date, links, idx, page_had_new, f_open, exitCode,
                   nListReq, nDetailReq, lastList, firstList, wmBefore,
                   cutoffs, cli_since, lastDetail, slept, prevExit, failures>>

\* after the loop: close the output, print the summary, update last_run.txt,
\* return (exit status 0)
Finish ==
    /\ pc = "summary"
    /\ f_open' = FALSE
    /\ IF max_date # NoDate
       THEN /\ stateFile' = strftime_iso(max_date)
            /\ stdout' = stdout \o <<Line("range", 0), Line("updated", 0)>>
       ELSE IF stateFile = NoStr
       THEN /\ stateFile' = strftime_iso(Today)
            /\ stdout' = stdout \o <<Line("range", 0), Line("initialized", 0)>>
       ELSE /\ stateFile' = stateFile
            /\ stdout' = Append(stdout, Line("range", 0))
    /\ exitCode' = 0
    /\ pc' = "exited"
    /\ UNCHANGED <<feed, jsonl, runNo, since, appended, min_date, max_date,
                   page, links, idx, page_had_new, nListReq, nDetailReq,
                   lastList, firstList, wmBefore, cutoffs, cli_since, lastDetail, slept, prevExit,
                   failures>>

ScrapeInit ==
    /\ feed \in Feeds
    /\ stateFile \in InitialStateFiles
    /\ jsonl = <<>>
    /\ pc = "idle"
    /\ runNo = 0
    /\ since = NoDate
    /\ appended = 0
    /\ min_date = NoDate
    /\ max_date = NoDate
    /\ page = 1
    /\ links = <<>>
    /\ idx = 1
    /\ page_had_new = FALSE
    /\ f_open = FALSE
    /\ stdout = <<>>
    /\ exitCode = -1
    /\ nListReq = 0
    /\ nDetailReq = 0
    /\ lastList = "none"
    /\ firstList = "none"
    /\ wmBefore = NoStr
    /\ cutoffs = <<>>
    /\ lastDetail = "none"
    /\ prevExit = -1
    /\ failures = 0
    /\ cli_since = NoStr
    /\ slept = FALSE

\* ---------------------------------------------------------------- loader

MaxFile == 2

MaxLimit == 2

MaxLoads == 2

NoLimit == -1

\* create_schema.py: the unique indexes of table applicants, by column set
\* (the primary key, and CONSTRAINT applicants_uniq)
UniqueIndexes == {{"p_id"}, {"program", "url", "date_added"}}

\* INSERT_SQL: ON CONFLICT (url)
ConflictTarget == {"url"}

\* PostgreSQL infers the arbiter of ON CONFLICT (cols) among the unique
\* indexes over exactly those columns; with none the statement is an error
\* ("there is no unique or exclusion constraint matching the ON CONFLICT
\* specification"), whatever the table holds.
ArbiterExists == \E ix \in UniqueIndexes : ix = ConflictTarget

DATE_FORMATS == <<FMT_ISO, FMT_SLASH, FMT_ABBR, FMT_LONG, FMT_DMON>>

RECURSIVE parse_date_from(_, _)
parse_date_from(s, i) ==
    IF i > Len(DATE_FORMATS) THEN NoDate
    ELSE IF strptime(s, DATE_FORMATS[i]) # NoDate THEN strptime(s, DATE_FORMATS[i])
    ELSE parse_date_from(s, i + 1)

\* load_data.parse_date
parse_date(s) == IF s = NoStr THEN NoDate ELSE parse_date_from(s, 1)

\* build_payload, the columns the constraints read
build_payload(r) ==
    [program |-> r.program, url |-> r.url, date_added |-> parse_date(r.date_added)]

\* Records a source file can hold.
RecordPool ==
    { [program |-> "CS", url |-> 1, date_added |-> Str("iso", 2025, 1, 5)],
      [program |-> "Math", url |-> 1, date_added |-> Str("iso", 2025, 1, 5)],
      [program |-> "CS", url |-> 2, date_added |-> Str("slash", 2, 1, 2025)] }

SourceFiles == UNION { [1..n -> RecordPool] : n \in 0..MaxFile }

Limits == {NoLimit} \cup (0..MaxLimit)

VARIABLES
    store,         \* committed rows of table applicants
    txn,           \* rows as the open transaction sees them
    ld_pc,         \* "idle" | "loop" | "print" | "exited"
    ld_src,        \* the records of the source file
    ld_pos,        \* next record of ld_src
    ld_limit,
    inserted,
    executed,      \* INSERT statements executed by this call
    ld_out,        \* N of the "Inserted rows: N" line printed (NoCount: none)
    ld_exit,       \* exit status of the loader (-1 while running)
    ld_raised,     \* an INSERT raised an error in some call
    loads          \* calls of main so far

loadVars ==
    <<store, txn, ld_pc, ld_src, ld_pos, ld_limit, inserted, executed, ld_out,
      ld_exit, ld_raised, loads>>

\* a row that conflicts on the arbiter index
Conflicts(rows, row) == \E r \in rows : r.url = row.url

\* main: open the connection and the cursor, start iterating
LoadStart(src, limit) ==
    /\ ld_pc \in {"idle", "exited"}
    /\ loads < MaxLoads
    /\ loads' = loads + 1
    /\ ld_src' = src
    /\ ld_limit' = limit
    /\ ld_pos' = 1
    /\ inserted' = 0
    /\ executed' = 0
    /\ ld_out' = -1
    /\ ld_exit' = -1
    /\ txn' = store
    /\ ld_pc' = "loop"
    /\ UNCHANGED <<store, ld_raised>>

\* one iteration: cursor.execute(INSERT_SQL, payload); inserted += 1; the
\* limit test.  An error leaves both with-blocks (the transaction is rolled
\* back) and, FileNotFoundError apart, the process.
LoadInsert ==
    /\ ld_pc = "loop"
    /\ ld_pos <= Len(ld_src)
    /\ executed' = executed + 1
    /\ IF ~ArbiterExists
       THEN /\ ld_raised' = TRUE
            /\ txn' = store
            /\ ld_exit' = 1
            /\ ld_pc' = "exited"
            /\ UNCHANGED <<inserted, ld_pos>>
       ELSE /\ txn' = IF Conflicts(txn, build_payload(ld_src[ld_pos]))
                      THEN txn
                      ELSE txn \cup {build_payload(ld_src[ld_pos])}
            /\ inserted' = inserted + 1
            /\ ld_pos' = ld_pos + 1
            /\ ld_pc' = IF ld_limit # NoLimit /\ inserted + 1 >= ld_limit
                        THEN "print" ELSE "loop"
            /\ UNCHANGED <<ld_raised, ld_exit>>
    /\ UNCHANGED <<store, ld_src, ld_limit, ld_out, loads>>

\* the source is exhausted
LoadEnd ==
    /\ ld_pc = "loop"
    /\ ld_pos > Len(ld_src)
    /\ ld_pc' = "print"
    /\ UNCHANGED <<store, txn, ld_src, ld_pos, ld_limit, inserted, executed,
                   ld_out, ld_exit, ld_raised, loads>>

\* the with-blocks exit (commit), print(f"Inserted rows: {inserted}"), return
LoadReturn ==
    /\ ld_pc = "print"
    /\ store' = txn
    /\ ld_out' = inserted
    /\ ld_exit' = 0
    /\ ld_pc' = "exited"
    /\ UNCHANGED <<txn, ld_src, ld_pos, ld_limit, inserted, executed,
                   ld_raised, loads>>

LoadInit ==
    /\ store = {}
    /\ txn = {}
    /\ ld_pc = "idle"
    /\ ld_src = <<>>
    /\ ld_pos = 1
    /\ ld_limit = NoLimit
    /\ inserted = 0
    /\ executed = 0
    /\ ld_out = -1
    /\ ld_exit = -1
    /\ ld_raised = FALSE
    /\ loads = 0

\* -------------------------------------------------------------- dashboard
\* module_5/src/app.py.  The server handles requests in threads; each worker
\* below is one such thread.  The scraper and the loader are opaque child
\* processes here: they exit with a status and leave some error output.

MaxRequests == 3

MaxClock == 4

\* the request threads of the server
Workers == 1..2

\* the text of scrape.lock: "none" the file is missing, "junk" text that
\* int() rejects, "int" the decimal text of pid
NoLock == [text |-> "none", pid |-> 0]

JunkLock == [text |-> "junk", pid |-> 0]

\* str(pid)
LockText(p) == [text |-> "int", pid |-> p]

\* os.getpid(): the server process
AppPid == 1

\* a process of an earlier life of the lock file
OldPid == 2

\* _mtime of a missing file (None)
NoFile == 0

\* exc.stderr[-500:]
STDERR_TAIL == 500

\* lengths of the error output a child can leave
ErrLens == {0, STDERR_TAIL + 1}

NotRun == -2

Running == -1

VARIABLES
    lock,          \* scrape.lock
    alive,         \* the pids of the live processes
    pullOk,        \* mtime of last_pull_success.txt (NoFile: missing)
    analysis,      \* mtime of last_analysis.txt (NoFile: missing)
    clock,         \* time.time(), in units of the mtime resolution
    w_pc,          \* where each worker is in its handler
    w_json,        \* json_response of the worker's request
    w_pid,         \* pid of the scraper the worker's request spawned
    scr,           \* the request's scraper: NotRun, Running or its exit status
    ldr,           \* the request's loader: NotRun, Running or its exit status
    w_err,         \* length of the stderr captured from the child that exited
    resp,          \* the response each worker returned last
    nReq,          \* requests received
    nSpawn,        \* child processes spawned
    wrote          \* the marker files the worker's request wrote

dashVars ==
    <<lock, alive, pullOk, analysis, clock, w_pc, w_json, w_pid, scr, ldr,
      w_err, resp, nReq, nSpawn, wrote>>

PULL == "/pull-data"

UPDATE == "/update-analysis"

NoResp ==
    [route |-> "", code |-> 0, status |-> "none", msg |-> "", rc |-> 0,
     err |-> 0]

\* a JSON response: the status code and the payload's status and message
Resp(r, c, s, m) ==
    [route |-> r, code |-> c, status |-> s, msg |-> m, rc |-> 0, err |-> 0]

\* the HTML client is redirected to the index page with a flashed message
Redirect(r, category, m) == Resp(r, 302, category, m)

\* faulty variant of compute_gate_state: the pull marker is not required
compute_gate_state_any(ok, an) == an = NoFile \/ an < ok

\* faulty variant of compute_gate_state: an analysis marker as old as the
\* pull marker counts as older
compute_gate_state_le(ok, an) == ok # NoFile /\ (an = NoFile \/ an <= ok)

\* compute_gate_state: needs_update
compute_gate_state(ok, an) == ok # NoFile /\ (an = NoFile \/ an < ok)

\* os.kill(pid, 0) returns (TRUE) or raises OSError (FALSE).  A positive
\* pid names one process; 0 names the process group of the caller and -1
\* every process the caller may signal, the caller among them.
os_kill(pid, al) == IF pid > 0 THEN pid \in al ELSE pid \in {0, -1}

\* is_running: the value returned
is_running(l, al) == l.text = "int" /\ os_kill(l.pid, al)

\* faulty variant of lock_after_is_running: the lock is cleared in any case
lock_after_is_running_clear(l, al) == NoLock

\* is_running: scrape.lock after the call (_clear_lock on ValueError, OSError)
lock_after_is_running(l, al) ==
    IF l.text = "none" \/ is_running(l, al) THEN l ELSE NoLock

\* _handle_when_running, when is_running() holds
handle_when_running(json) ==
    IF json THEN Resp(PULL, 409, "busy", "")
    ELSE Redirect(PULL, "error", "A data pull is already running")

\* faulty variant of handle_subprocess_failure: the generic message
handle_subprocess_failure_generic(json, rc, err) ==
    IF json THEN Resp(PULL, 500, "error", "Pull failed")
    ELSE Redirect(PULL, "error", "Pull failed")

\* _handle_subprocess_failure: the exit code, and the last 500 characters of
\* stderr when it is not empty
handle_subprocess_failure(json, rc, err) ==
    LET m == IF json THEN Resp(PULL, 500, "error", "Command failed")
             ELSE Redirect(PULL, "error", "Command failed")
    IN [m EXCEPT !.rc = rc,
                 !.err = IF err > STDERR_TAIL THEN STDERR_TAIL ELSE err]

\* _handle_generic_failure
handle_generic_failure(json) ==
    IF json THEN Resp(PULL, 500, "error", "Pull failed")
    ELSE Redirect(PULL, "error", "Pull failed")

\* _respond_success
respond_success(json) ==
    IF json THEN Resp(PULL, 200, "ok", "")
    ELSE Redirect(PULL, "success", "Pull complete")

\* _update_busy_response
update_busy_response(json) ==
    IF json THEN Resp(UPDATE, 409, "busy", "")
    ELSE Redirect(UPDATE, "error", "Please wait until data pull has completed")

\* _no_update_available_response
no_update_available_response(json) ==
    IF json THEN Resp(UPDATE, 409, "noop", "no-new-data")
    ELSE Redirect(UPDATE, "info", "No new data to update analysis with")

\* _update_failure_response
update_failure_response(json) ==
    IF json THEN Resp(UPDATE, 500, "error", "Update failed")
    ELSE Redirect(UPDATE, "error", "Update failed")

\* _update_success_response
update_success_response(json) ==
    IF json THEN Resp(UPDATE, 200, "ok", "")
    ELSE Redirect(UPDATE, "success", "Analysis updated")

\* faulty variant of loader_may_start: the scraper's status is not tested
loader_may_start_always(rc) == TRUE

\* scraper.returncode != 0 raises CalledProcessError before the loader
loader_may_start(rc) == rc = 0

\* faulty variant of lock_at_return: the finally clause is missing
lock_at_return_kept(l) == l

\* finally: set_lock(None)
lock_at_return(l) == NoLock

\* exit statuses of the scraper and of the loader
ExitCodes == {0, 1}

\* a request reaches an idle worker (the first one)
BeginReq(w, json) ==
    /\ w_pc[w] = "idle"
    /\ \A v \in Workers : w_pc[v] = "idle" => w <= v
    /\ nReq < MaxRequests
    /\ nReq' = nReq + 1
    /\ w_json' = [w_json EXCEPT ![w] = json]
    /\ w_pid' = [w_pid EXCEPT ![w] = 0]
    /\ scr' = [scr EXCEPT ![w] = NotRun]
    /\ ldr' = [ldr EXCEPT ![w] = NotRun]
    /\ w_err' = [w_err EXCEPT ![w] = 0]
    /\ wrote' = [wrote EXCEPT ![w] = {}]

\* the handler returns response r
Return(w, r) ==
    /\ resp' = [resp EXCEPT ![w] = r]
    /\ w_pc' = [w_pc EXCEPT ![w] = "idle"]

\* pull_data up to the busy check
PullRequest(w, json) ==
    /\ BeginReq(w, json)
    /\ lock' = lock_after_is_running(lock, alive)
    /\ IF is_running(lock, alive)
       THEN Return(w, handle_when_running(json))
       ELSE /\ resp' = [resp EXCEPT ![w] = NoResp]
            /\ w_pc' = [w_pc EXCEPT ![w] = "p_lock"]
    /\ UNCHANGED <<alive, pullOk, analysis, clock, nSpawn>>

\* _run_scraper_and_loader: set_lock(os.getpid())
PullSetLock(w) ==
    /\ w_pc[w] = "p_lock"
    /\ lock' = LockText(AppPid)
    /\ w_pc' = [w_pc EXCEPT ![w] = "p_spawn"]
    /\ UNCHANGED <<alive, pullOk, analysis, clock, w_json, w_pid, scr, ldr,
                   w_err, resp, nReq, nSpawn, wrote>>

\* subprocess.Popen(SCRAPER_CMD) starts the scraper
PullSpawnScraper(w) ==
    /\ w_pc[w] = "p_spawn"
    /\ nSpawn' = nSpawn + 1
    /\ w_pid' = [w_pid EXCEPT ![w] = OldPid + nSpawn + 1]
    /\ alive' = alive \cup {OldPid + nSpawn + 1}
    /\ scr' = [scr EXCEPT ![w] = Running]
    /\ w_pc' = [w_pc EXCEPT ![w] = "p_lockpid"]
    /\ UNCHANGED <<lock, pullOk, analysis, clock, w_json, ldr, w_err, resp,
                   nReq, wrote>>

\* subprocess.Popen(SCRAPER_CMD) raises OSError: the finally clause, then
\* pull_data's except (OSError, ValueError)
PullSpawnScraperFails(w) ==
    /\ w_pc[w] = "p_spawn"
    /\ lock' = lock_at_return(lock)
    /\ Return(w, handle_generic_failure(w_json[w]))
    /\ UNCHANGED <<alive, pullOk, analysis, clock, w_json, w_pid, scr, ldr,
                   w_err, nReq, nSpawn, wrote>>

\* set_lock(scraper.pid)
PullLockPid(w) ==
    /\ w_pc[w] = "p_lockpid"
    /\ lock' = LockText(w_pid[w])
    /\ w_pc' = [w_pc EXCEPT ![w] = "p_wait_s"]
    /\ UNCHANGED <<alive, pullOk, analysis, clock, w_json, w_pid, scr, ldr,
                   w_err, resp, nReq, nSpawn, wrote>>

\* the scraper process exits; it ran for longer than the mtime resolution
ScraperExit(w, rc, err) ==
    /\ scr[w] = Running
    /\ clock < MaxClock
    /\ clock' = clock + 1
    /\ scr' = [scr EXCEPT ![w] = rc]
    /\ w_err' = [w_err EXCEPT ![w] = err]
    /\ alive' = alive \ {w_pid[w]}
    /\ UNCHANGED <<lock, pullOk, analysis, w_pc, w_json, w_pid, ldr, resp,
                   nReq, nSpawn, wrote>>

\* scraper.communicate() has returned: CalledProcessError on a non-zero
\* status, else subprocess.Popen(LOADER_CMD) starts the loader
PullAfterScraper(w) ==
    /\ w_pc[w] = "p_wait_s"
    /\ scr[w] \notin {NotRun, Running}
    /\ IF loader_may_start(scr[w])
       THEN /\ nSpawn' = nSpawn + 1
            /\ ldr' = [ldr EXCEPT ![w] = Running]
            /\ w_pc' = [w_pc EXCEPT ![w] = "p_wait_l"]
            /\ UNCHANGED <<lock, resp>>
       ELSE /\ lock' = lock_at_return(lock)
            /\ Return(w, handle_subprocess_failure(w_json[w], scr[w], w_err[w]))
            /\ UNCHANGED <<nSpawn, ldr>>
    /\ UNCHANGED <<alive, pullOk, analysis, clock, w_json, w_pid, scr, w_err,
                   nReq, wrote>>

\* subprocess.Popen(LOADER_CMD) raises OSError
PullSpawnLoaderFails(w) ==
    /\ w_pc[w] = "p_wait_s"
    /\ scr[w] = 0
    /\ lock' = lock_at_return(lock)
    /\ Return(w, handle_generic_failure(w_json[w]))
    /\ UNCHANGED <<alive, pullOk, analysis, clock, w_json, w_pid, scr, ldr,
                   w_err, nReq, nSpawn, wrote>>

\* the loader process exits
LoaderExit(w, rc, err) ==
    /\ ldr[w] = Running
    /\ ldr' = [ldr EXCEPT ![w] = rc]
    /\ w_err' = [w_err EXCEPT ![w] = err]
    /\ UNCHANGED <<lock, alive, pullOk, analysis, clock, w_pc, w_json, w_pid,
                   scr, resp, nReq, nSpawn, wrote>>

\* loader.communicate() has returned: CalledProcessError on a non-zero
\* status, else _write_success_marker(); then the finally clause and the
\* response
PullAfterLoader(w) ==
    /\ w_pc[w] = "p_wait_l"
    /\ ldr[w] \notin {NotRun, Running}
    /\ IF ldr[w] = 0
       THEN /\ pullOk' = clock
            /\ wrote' = [wrote EXCEPT ![w] = @ \cup {"marker"}]
            /\ Return(w, respond_success(w_json[w]))
       ELSE /\ Return(w, handle_subprocess_failure(w_json[w], ldr[w], w_err[w]))
            /\ UNCHANGED <<pullOk, wrote>>
    /\ lock' = lock_at_return(lock)
    /\ UNCHANGED <<alive, analysis, clock, w_json, w_pid, scr, ldr, w_err,
                   nReq, nSpawn>>

\* update_analysis up to the busy check
UpdateRequest(w, json) ==
    /\ BeginReq(w, json)
    /\ lock' = lock_after_is_running(lock, alive)
    /\ IF is_running(lock, alive)
       THEN Return(w, update_busy_response(json))
       ELSE /\ resp' = [resp EXCEPT ![w] = NoResp]
            /\ w_pc' = [w_pc EXCEPT ![w] = "u_gate"]
    /\ UNCHANGED <<alive, pullOk, analysis, clock, nSpawn>>

\* update_analysis: the gate, then ANALYSIS_FILE.write_text
UpdateGate(w) ==
    /\ w_pc[w] = "u_gate"
    /\ IF compute_gate_state(pullOk, analysis)
       THEN /\ analysis' = clock
            /\ wrote' = [wrote EXCEPT ![w] = @ \cup {"analysis"}]
            /\ Return(w, update_success_response(w_json[w]))
       ELSE /\ Return(w, no_update_available_response(w_json[w]))
            /\ UNCHANGED <<analysis, wrote>>
    /\ UNCHANGED <<lock, alive, pullOk, clock, w_json, w_pid, scr, ldr, w_err,
                   nReq, nSpawn>>

\* update_analysis: the gate is open but mkdir or write_text raises OSError
UpdateWriteFails(w) ==
    /\ w_pc[w] = "u_gate"
    /\ compute_gate_state(pullOk, analysis)
    /\ Return(w, update_failure_response(w_json[w]))
    /\ UNCHANGED <<lock, alive, pullOk, analysis, clock, w_json, w_pid, scr,
                   ldr, w_err, nReq, nSpawn, wrote>>

\* time passes
Tick ==
    /\ clock < MaxClock
    /\ clock' = clock + 1
    /\ UNCHANGED <<lock, alive, pullOk, analysis, w_pc, w_json, w_pid, scr,
                   ldr, w_err, resp, nReq, nSpawn, wrote>>

\* the server is idle and no file of it exists
DashIdle ==
    /\ w_pc = [w \in Workers |-> "idle"]
    /\ w_json = [w \in Workers |-> FALSE]
    /\ w_pid = [w \in Workers |-> 0]
    /\ scr = [w \in Workers |-> NotRun]
    /\ ldr = [w \in Workers |-> NotRun]
    /\ w_err = [w \in Workers |-> 0]
    /\ resp = [w \in Workers |-> NoResp]
    /\ wrote = [w \in Workers |-> {}]
    /\ nReq = 0
    /\ nSpawn = 0

\* the server starts on whatever earlier runs left behind
DashInit ==
    /\ DashIdle
    /\ clock = 2
    /\ lock \in {NoLock, JunkLock, LockText(OldPid)}
    /\ alive \in {{AppPid}, {AppPid, OldPid}}
    /\ lock.text = "int" \/ alive = {AppPid}
    /\ pullOk \in {NoFile, 2}
    /\ analysis \in {NoFile} \cup 1..2

\* the server is not started
DashOff ==
    /\ DashIdle
    /\ clock = 2
    /\ lock = NoLock
    /\ alive = {AppPid}
    /\ pullOk = NoFile
    /\ analysis = NoFile

\* ------------------------------------------------------------- is_running
\* One call of is_running, on any lock file and any set of live processes.

MaxPid == 5

\* what scrape.lock can hold
LockTexts == {NoLock, JunkLock} \cup {LockText(p) : p \in -1..MaxPid}

\* the server, and any of the other pids
AliveSets == {S \cup {AppPid} : S \in SUBSET (OldPid..MaxPid)}

VARIABLES
    ir_pc,         \* "call" | "returned"
    ir_ret,        \* the value returned
    ir_lock0       \* scrape.lock when the call was made

irVars == <<ir_pc, ir_ret, ir_lock0>>

IsRunningCall ==
    /\ ir_pc = "call"
    /\ ir_ret' = is_running(lock, alive)
    /\ lock' = lock_after_is_running(lock, alive)
    /\ ir_lock0' = lock
    /\ ir_pc' = "returned"
    /\ UNCHANGED <<alive, pullOk, analysis, clock, w_pc, w_json, w_pid, scr,
                   ldr, w_err, resp, nReq, nSpawn, wrote>>

IrOff == ir_pc = "call" /\ ir_ret = FALSE /\ ir_lock0 = NoLock

IrInit ==
    /\ IrOff
    /\ DashIdle
    /\ clock = 2
    /\ pullOk = NoFile
    /\ analysis = NoFile
    /\ lock \in LockTexts
    /\ alive \in AliveSets

\* ------------------------------------------------------------ extract_gre
\* The free text given to extract_gre is a sequence of fragments separated
\* by punctuation no pattern crosses (" | " or ", ").  A number as written
\* is a record [int, digits, frac]: the integer part, how many digits it is
\* written with, and the digit after the decimal point (-1: none).  A score
\* is kept in tenths (170.0 is 1700, 4.5 is 45); NoScore is None.

MaxTokens == 2

NoScore == -1

NumText(i, n, f) == [int |-> i, digits |-> n, frac |-> f]

NoNum == NumText(0, 0, -1)

\* _to_float of the matched group, in tenths
to_float(i, f) == i * 10 + (IF f < 0 THEN 0 ELSE f)

RECURSIVE Pow10(_)
Pow10(n) == IF n = 0 THEN 1 ELSE 10 * Pow10(n - 1)

FirstDigit(n) == n.int \div Pow10(n.digits - 1)

\* (\d{2,3})\b after a label: two or three digits, then a word boundary
labeled_qv(n) == IF n.digits \in {2, 3} THEN to_float(n.int, -1) ELSE NoScore

\* ([0-6](?:\.\d)?)\b after a label
labeled_w(n) ==
    IF n.digits = 1 /\ n.int <= 6 THEN to_float(n.int, n.frac) ELSE NoScore

\* (\d{2,3})\s*/ inside a hinted triple: the slash follows the digits
triple_qv(n) ==
    IF n.digits \in {2, 3} /\ n.frac < 0 THEN to_float(n.int, -1) ELSE NoScore

\* ([0-6](?:\.\d)?) ending a hinted triple: no boundary is asked for
triple_w(n) ==
    IF n.digits = 0 \/ FirstDigit(n) > 6 THEN NoScore
    ELSE IF n.digits = 1 THEN to_float(n.int, n.frac)
    ELSE to_float(FirstDigit(n), -1)

\* (\d{2,3})\s*Q\b : the last two or three digits before the letter
suffix_qv(n) ==
    IF n.digits >= 2 /\ n.frac < 0 THEN to_float(n.int % 1000, -1) ELSE NoScore

\* ([0-6](?:\.\d)?)\s*(?:AW|W)\b : the leftmost place the pattern fits
suffix_w(n) ==
    IF n.digits = 0 THEN NoScore
    ELSE IF n.int % 10 <= 6 THEN to_float(n.int % 10, n.frac)
    ELSE IF n.frac >= 0 /\ n.frac <= 6 THEN to_float(n.frac, -1)
    ELSE NoScore

\* fragments: "lab" a label and a number ('Q 170', 'V: 165', 'AW 4.5'),
\* "hint" a hinted triple ('(Q/V/W): 170/165/4.5'), "suf" a number and a
\* letter ('170Q', '4.5W'), "word" anything else
Lab(slot, n) == [kind |-> "lab", tag |-> slot, a |-> n, b |-> NoNum, c |-> NoNum]

Hint(order, x, y, z) == [kind |-> "hint", tag |-> order, a |-> x, b |-> y, c |-> z]

Suf(slot, n) == [kind |-> "suf", tag |-> slot, a |-> n, b |-> NoNum, c |-> NoNum]

Word == [kind |-> "word", tag |-> "", a |-> NoNum, b |-> NoNum, c |-> NoNum]

TokenPool ==
    { Lab("Q", NumText(170, 3, -1)),
      Lab("V", NumText(165, 3, -1)),
      Lab("W", NumText(4, 1, 5)),
      Lab("W", NumText(0, 1, -1)),
      Lab("Q", NumText(7, 1, -1)),
      Hint("QVW", NumText(170, 3, -1), NumText(165, 3, -1), NumText(4, 1, 5)),
      Hint("VQW", NumText(165, 3, -1), NumText(170, 3, -1), NumText(5, 1, 0)),
      Hint("VQW", NumText(165, 3, -1), NumText(7, 1, -1), NumText(5, 1, 0)),
      Suf("Q", NumText(170, 3, -1)),
      Suf("W", NumText(4, 1, 5)),
      Word }

Texts == UNION { [1..n -> TokenPool] : n \in 0..MaxTokens }

\* what a pattern captures in a fragment (NoScore: the pattern does not fit)
singleton_in(tok, slot) ==
    IF tok.kind = "lab" /\ tok.tag = slot
    THEN (IF slot = "W" THEN labeled_w(tok.a) ELSE labeled_qv(tok.a))
    ELSE NoScore

suffix_in(tok, slot) ==
    IF tok.kind = "suf" /\ tok.tag = slot
    THEN (IF slot = "W" THEN suffix_w(tok.a) ELSE suffix_qv(tok.a))
    ELSE NoScore

hint_fits(tok, order) ==
    /\ tok.kind = "hint" /\ tok.tag = order
    /\ triple_qv(tok.a) # NoScore
    /\ triple_qv(tok.b) # NoScore
    /\ triple_w(tok.c) # NoScore

\* re.search: the leftmost of the fragments the pattern fits, 0 for none
First(S) == IF S = {} THEN 0 ELSE CHOOSE i \in S : \A j \in S : i <= j

find_singleton(t, slot) ==
    LET i == First({k \in DOMAIN t : singleton_in(t[k], slot) # NoScore})
    IN IF i = 0 THEN NoScore ELSE singleton_in(t[i], slot)

find_suffix(t, slot) ==
    LET i == First({k \in DOMAIN t : suffix_in(t[k], slot) # NoScore})
    IN IF i = 0 THEN NoScore ELSE suffix_in(t[i], slot)

find_hint(t, order) == First({k \in DOMAIN t : hint_fits(t[k], order)})

\* a Python float is true unless it is 0.0; None is false
truthy(x) == x # NoScore /\ x # 0

\* faulty variant of assign_vqw: the groups are taken by position
assign_vqw_positional(x, y, z) == <<x, y, z>>

\* (_to_float(m.group(2)), _to_float(m.group(1)), _to_float(m.group(3)))
assign_vqw(x, y, z) == <<y, x, z>>

\* (_to_float(m.group(1)), _to_float(m.group(2)), _to_float(m.group(3)))
assign_qvw(x, y, z) == <<x, y, z>>

VARIABLES
    gre_text,      \* raw_text
    gre_pc,        \* "start" | "hints" | "suffix" | "done"
    gre_ret,       \* the tuple returned: <<q, v, aw>>
    gre_trail      \* the strategies consulted, in order

greVars == <<gre_text, gre_pc, gre_ret, gre_trail>>

NoScores == <<NoScore, NoScore, NoScore>>

\* the empty text returns at once; else the labeled singletons
GreSingletons ==
    /\ gre_pc = "start"
    /\ IF gre_text = <<>>
       THEN /\ gre_ret' = NoScores
            /\ gre_pc' = "done"
            /\ gre_trail' = gre_trail
       ELSE LET q == find_singleton(gre_text, "Q")
                v == find_singleton(gre_text, "V")
                aw == find_singleton(gre_text, "W")
            IN /\ gre_trail' = Append(gre_trail, 1)
               /\ IF truthy(q) \/ truthy(v) \/ truthy(aw)
                  THEN gre_ret' = <<q, v, aw>> /\ gre_pc' = "done"
                  ELSE gre_ret' = gre_ret /\ gre_pc' = "hints"
    /\ UNCHANGED gre_text

\* the parenthesized order hints: (Q/V/W) anywhere, else (V/Q/W) anywhere
GreHints ==
    /\ gre_pc = "hints"
    /\ gre_trail' = Append(gre_trail, 2)
    /\ LET i == find_hint(gre_text, "QVW")
           j == find_hint(gre_text, "VQW")
           R(k) == <<triple_qv(gre_text[k].a), triple_qv(gre_text[k].b),
                     triple_w(gre_text[k].c)>>
       IN IF i # 0
          THEN /\ gre_ret' = assign_qvw(R(i)[1], R(i)[2], R(i)[3])
               /\ gre_pc' = "done"
          ELSE IF j # 0
          THEN /\ gre_ret' = assign_vqw(R(j)[1], R(j)[2], R(j)[3])
               /\ gre_pc' = "done"
          ELSE /\ gre_ret' = gre_ret
               /\ gre_pc' = "suffix"
    /\ UNCHANGED gre_text

\* the suffix forms; the match objects are tested, not the values
GreSuffix ==
    /\ gre_pc = "suffix"
    /\ gre_trail' = Append(gre_trail, 3)
    /\ gre_ret' = <<find_suffix(gre_text, "Q"), find_suffix(gre_text, "V"),
                    find_suffix(gre_text, "W")>>
    /\ gre_pc' = "done"
    /\ UNCHANGED gre_text

GreIdle ==
    /\ gre_pc = "start"
    /\ gre_ret = NoScores
    /\ gre_trail = <<>>

GreOff == gre_text = <<>> /\ GreIdle

GreInit == gre_text \in Texts /\ GreIdle

\* --------------------------------------------------------- parse_added_on
\* The function step by step, on one text.

DateLayouts == {"long", "abbr", "iso", "slash", "dmon", "junk"}

DateYears == {1999, 2000, 2025, 2030, 2031}

DateMonths == {1, 2, 5, 12, 13}

DateDays == {1, 29, 31, 32}

\* the text that writes year y, month m, day d in layout l
TextOf(l, y, m, d) ==
    CASE l = "iso" -> Str(l, y, m, d)
      [] l = "dmon" -> Str(l, d, m, y)
      [] OTHER -> Str(l, m, d, y)

DateTexts ==
    {NoStr} \cup
    { TextOf(l, y, m, d) :
        l \in DateLayouts, y \in DateYears, m \in DateMonths, d \in DateDays }

VARIABLES
    pd_in,         \* s
    pd_i,          \* index of the format the loop is at
    pd_pc,         \* "loop" | "done"
    pd_ret,        \* the value returned
    pd_tried       \* the formats given to strptime, in order

pdVars == <<pd_in, pd_i, pd_pc, pd_ret, pd_tried>>

\* if not s: return None
ParseEmpty ==
    /\ pd_pc = "loop"
    /\ pd_in = NoStr
    /\ pd_ret' = NoDate
    /\ pd_pc' = "done"
    /\ UNCHANGED <<pd_in, pd_i, pd_tried>>

\* one turn of the loop: strptime with the next format; a date is returned
\* if it is in range and None is returned if it is not, an error continues
ParseTry ==
    /\ pd_pc = "loop"
    /\ pd_in # NoStr
    /\ pd_i <= Len(ADDED_ON_FORMATS)
    /\ pd_tried' = Append(pd_tried, ADDED_ON_FORMATS[pd_i])
    /\ LET d == strptime(pd_in, ADDED_ON_FORMATS[pd_i])
       IN IF d # NoDate
          THEN /\ pd_ret' = IF in_range(d) THEN d ELSE NoDate
               /\ pd_pc' = "done"
               /\ pd_i' = pd_i
          ELSE /\ pd_i' = pd_i + 1
               /\ UNCHANGED <<pd_ret, pd_pc>>
    /\ UNCHANGED pd_in

\* the formats are used up: return None
ParseNone ==
    /\ pd_pc = "loop"
    /\ pd_in # NoStr
    /\ pd_i > Len(ADDED_ON_FORMATS)
    /\ pd_ret' = NoDate
    /\ pd_pc' = "done"
    /\ UNCHANGED <<pd_in, pd_i, pd_tried>>

ParseIdle ==
    /\ pd_i = 1
    /\ pd_pc = "loop"
    /\ pd_ret = NoDate
    /\ pd_tried = <<>>

ParseOff == pd_in = NoStr /\ ParseIdle

ParseInit == pd_in \in DateTexts /\ ParseIdle

\* ------------------------------------------------ GRE slots of a record
\* scrape_data, "GRE extraction": the structured detail fields first, the
\* free-text blob for the slots they leave empty.  A field is the <dd> text
\* found under its label: "none" the label is missing, "num" text float()
\* accepts, "text" any other text.

NoField == [kind |-> "none", n |-> NoNum]

NumField(i, n, f) == [kind |-> "num", n |-> NumText(i, n, f)]

TextField == [kind |-> "text", n |-> NoNum]

\* data.get("gre general"), data.get("gre verbal"),
\* data.get("analytical writing")
FieldSets ==
    [q : {NoField, TextField, NumField(168, 3, -1)},
     v : {NoField, NumField(160, 3, -1)},
     aw : {NoField, NumField(0, 1, -1), NumField(3, 1, 5)}]

\* _to_float(data.get(label)), in tenths
field_to_float(f) == IF f.kind = "num" THEN to_float(f.n.int, f.n.frac) ELSE NoScore

\* faulty variant of fill: the value from the blob is preferred
fill_blob_first(s, x) == IF x # NoScore THEN x ELSE s

\* gre_q = gre_q if gre_q is not None else q2
fill(s, x) == IF s # NoScore THEN s ELSE x

VARIABLES
    rec_fields,    \* the three structured fields of the detail page
    rec_pc,        \* "fields" | "extract" | "done"
    rec_gre        \* <<GRE, GRE V, GRE AW>> of the record

recVars == <<rec_fields, rec_pc, rec_gre>>

\* the three _to_float calls and the test for a missing slot
RecStructured ==
    /\ rec_pc = "fields"
    /\ rec_gre' = <<field_to_float(rec_fields.q), field_to_float(rec_fields.v),
                    field_to_float(rec_fields.aw)>>
    /\ rec_pc' = IF \/ field_to_float(rec_fields.q) = NoScore
                    \/ field_to_float(rec_fields.v) = NoScore
                    \/ field_to_float(rec_fields.aw) = NoScore
                 THEN "extract" ELSE "done"
    /\ UNCHANGED rec_fields

\* q2, v2, aw2 = extract_gre(blob) has returned: fill the slots
RecFill ==
    /\ rec_pc = "extract"
    /\ gre_pc = "done"
    /\ rec_gre' = <<fill(rec_gre[1], gre_ret[1]), fill(rec_gre[2], gre_ret[2]),
                    fill(rec_gre[3], gre_ret[3])>>
    /\ rec_pc' = "done"
    /\ UNCHANGED rec_fields

RecIdle == rec_pc = "fields" /\ rec_gre = NoScores

RecOff == rec_fields = [q |-> NoField, v |-> NoField, aw |-> NoField] /\ RecIdle

RecInit == rec_fields \in FieldSets /\ RecIdle

\* ------------------------------------------------------- specifications

vars ==
    <<scrapeVars, loadVars, dashVars, greVars, pdVars, recVars, irVars>>

\* the scraper, run after run
Init == ScrapeInit /\ LoadInit /\ DashOff /\ GreOff /\ ParseOff /\ RecOff /\ IrOff

Next ==
    \/ \E cli \in CliSinces : Start(cli) /\ UNCHANGED <<loadVars, dashVars, greVars, pdVars, recVars, irVars>>
    \/ ListRaise /\ UNCHANGED <<loadVars, dashVars, greVars, pdVars, recVars, irVars>>
    \/ ListNon200 /\ UNCHANGED <<loadVars, dashVars, greVars, pdVars, recVars, irVars>>
    \/ ListNoLinks /\ UNCHANGED <<loadVars, dashVars, greVars, pdVars, recVars, irVars>>
    \/ ListOk /\ UNCHANGED <<loadVars, dashVars, greVars, pdVars, recVars, irVars>>
    \/ SkipByCard /\ UNCHANGED <<loadVars, dashVars, greVars, pdVars, recVars, irVars>>
    \/ DetailRaise /\ UNCHANGED <<loadVars, dashVars, greVars, pdVars, recVars, irVars>>
    \/ DetailNon200 /\ UNCHANGED <<loadVars, dashVars, greVars, pdVars, recVars, irVars>>
    \/ DetailReject /\ UNCHANGED <<loadVars, dashVars, greVars, pdVars, recVars, irVars>>
    \/ DetailAppend /\ UNCHANGED <<loadVars, dashVars, greVars, pdVars, recVars, irVars>>
    \/ EndPageStop /\ UNCHANGED <<loadVars, dashVars, greVars, pdVars, recVars, irVars>>
    \/ EndPageNext /\ UNCHANGED <<loadVars, dashVars, greVars, pdVars, recVars, irVars>>
    \/ Finish /\ UNCHANGED <<loadVars, dashVars, greVars, pdVars, recVars, irVars>>

Spec == Init /\ [][Next]_vars

\* the steps of a run in progress
RunStep ==
    /\ \/ ListRaise \/ ListNon200 \/ ListNoLinks \/ ListOk
       \/ SkipByCard \/ DetailRaise \/ DetailNon200 \/ DetailReject \/ DetailAppend
       \/ EndPageStop \/ EndPageNext \/ Finish
    /\ UNCHANGED <<loadVars, dashVars, greVars, pdVars, recVars, irVars>>

\* one run of the scraper, from any listing and any last_run.txt
NextFair ==
    \/ \E cli \in CliSinces :
          runNo = 0 /\ Start(cli) /\ UNCHANGED <<loadVars, dashVars, greVars, pdVars, recVars, irVars>>
    \/ ListRaise /\ UNCHANGED <<loadVars, dashVars, greVars, pdVars, recVars, irVars>>
    \/ ListNon200 /\ UNCHANGED <<loadVars, dashVars, greVars, pdVars, recVars, irVars>>
    \/ ListNoLinks /\ UNCHANGED <<loadVars, dashVars, greVars, pdVars, recVars, irVars>>
    \/ ListOk /\ UNCHANGED <<loadVars, dashVars, greVars, pdVars, recVars, irVars>>
    \/ SkipByCard /\ UNCHANGED <<loadVars, dashVars, greVars, pdVars, recVars, irVars>>
    \/ DetailRaise /\ UNCHANGED <<loadVars, dashVars, greVars, pdVars, recVars, irVars>>
    \/ DetailNon200 /\ UNCHANGED <<loadVars, dashVars, greVars, pdVars, recVars, irVars>>
    \/ DetailReject /\ UNCHANGED <<loadVars, dashVars, greVars, pdVars, recVars, irVars>>
    \/ DetailAppend /\ UNCHANGED <<loadVars, dashVars, greVars, pdVars, recVars, irVars>>
    \/ EndPageStop /\ UNCHANGED <<loadVars, dashVars, greVars, pdVars, recVars, irVars>>
    \/ EndPageNext /\ UNCHANGED <<loadVars, dashVars, greVars, pdVars, recVars, irVars>>
    \/ Finish /\ UNCHANGED <<loadVars, dashVars, greVars, pdVars, recVars, irVars>>

\* that run when every request returns (with a response or an error) and the
\* interpreter keeps executing
SpecFair == Init /\ [][NextFair]_vars /\ WF_vars(RunStep)

\* the loader, call after call
InitLoad ==
    /\ feed = <<>> /\ stateFile = NoStr /\ ScrapeInit
    /\ LoadInit /\ DashOff /\ GreOff /\ ParseOff /\ RecOff /\ IrOff

NextLoad ==
    \/ \E src \in SourceFiles, limit \in Limits :
          LoadStart(src, limit) /\ UNCHANGED <<scrapeVars, dashVars, greVars, pdVars, recVars, irVars>>
    \/ LoadInsert /\ UNCHANGED <<scrapeVars, dashVars, greVars, pdVars, recVars, irVars>>
    \/ LoadEnd /\ UNCHANGED <<scrapeVars, dashVars, greVars, pdVars, recVars, irVars>>
    \/ LoadReturn /\ UNCHANGED <<scrapeVars, dashVars, greVars, pdVars, recVars, irVars>>

SpecLoad == InitLoad /\ [][NextLoad]_vars

\* the dashboard, request after request
InitDash ==
    /\ feed = <<>> /\ stateFile = NoStr /\ ScrapeInit
    /\ LoadInit /\ DashInit /\ GreOff /\ ParseOff /\ RecOff /\ IrOff

NextDash ==
    \/ \E w \in Workers, json \in BOOLEAN :
          PullRequest(w, json) /\ UNCHANGED <<scrapeVars, loadVars, greVars, pdVars, recVars, irVars>>
    \/ \E w \in Workers : PullSetLock(w) /\ UNCHANGED <<scrapeVars, loadVars, greVars, pdVars, recVars, irVars>>
    \/ \E w \in Workers :
          PullSpawnScraper(w) /\ UNCHANGED <<scrapeVars, loadVars, greVars, pdVars, recVars, irVars>>
    \/ \E w \in Workers :
          PullSpawnScraperFails(w) /\ UNCHANGED <<scrapeVars, loadVars, greVars, pdVars, recVars, irVars>>
    \/ \E w \in Workers : PullLockPid(w) /\ UNCHANGED <<scrapeVars, loadVars, greVars, pdVars, recVars, irVars>>
    \/ \E w \in Workers, rc \in ExitCodes :
          \E err \in (IF rc = 0 THEN {0} ELSE ErrLens) :
              ScraperExit(w, rc, err) /\ UNCHANGED <<scrapeVars, loadVars, greVars, pdVars, recVars, irVars>>
    \/ \E w \in Workers :
          PullAfterScraper(w) /\ UNCHANGED <<scrapeVars, loadVars, greVars, pdVars, recVars, irVars>>
    \/ \E w \in Workers :
          PullSpawnLoaderFails(w) /\ UNCHANGED <<scrapeVars, loadVars, greVars, pdVars, recVars, irVars>>
    \/ \E w \in Workers, rc \in ExitCodes :
          \E err \in (IF rc = 0 THEN {0} ELSE ErrLens) :
              LoaderExit(w, rc, err) /\ UNCHANGED <<scrapeVars, loadVars, greVars, pdVars, recVars, irVars>>
    \/ \E w \in Workers :
          PullAfterLoader(w) /\ UNCHANGED <<scrapeVars, loadVars, greVars, pdVars, recVars, irVars>>
    \/ \E w \in Workers, json \in BOOLEAN :
          UpdateRequest(w, json) /\ UNCHANGED <<scrapeVars, loadVars, greVars, pdVars, recVars, irVars>>
    \/ \E w \in Workers : UpdateGate(w) /\ UNCHANGED <<scrapeVars, loadVars, greVars, pdVars, recVars, irVars>>
    \/ \E w \in Workers :
          UpdateWriteFails(w) /\ UNCHANGED <<scrapeVars, loadVars, greVars, pdVars, recVars, irVars>>
    \/ Tick /\ UNCHANGED <<scrapeVars, loadVars, greVars, pdVars, recVars, irVars>>

SpecDash == InitDash /\ [][NextDash]_vars

\* no request is being handled
AllIdle == \A w \in Workers : w_pc[w] = "idle"

\* the dashboard when requests come one after the other: a request arrives
\* only when the one before it has been answered
NextSeq ==
    \/ \E w \in Workers, json \in BOOLEAN :
          AllIdle /\ PullRequest(w, json) /\ UNCHANGED <<scrapeVars, loadVars, greVars, pdVars, recVars, irVars>>
    \/ \E w \in Workers : PullSetLock(w) /\ UNCHANGED <<scrapeVars, loadVars, greVars, pdVars, recVars, irVars>>
    \/ \E w \in Workers : PullSpawnScraper(w) /\ UNCHANGED <<scrapeVars, loadVars, greVars, pdVars, recVars, irVars>>
    \/ \E w \in Workers : PullSpawnScraperFails(w) /\ UNCHANGED <<scrapeVars, loadVars, greVars, pdVars, recVars, irVars>>
    \/ \E w \in Workers : PullLockPid(w) /\ UNCHANGED <<scrapeVars, loadVars, greVars, pdVars, recVars, irVars>>
    \/ \E w \in Workers, rc \in ExitCodes :
          \E err \in (IF rc = 0 THEN {0} ELSE ErrLens) :
              ScraperExit(w, rc, err) /\ UNCHANGED <<scrapeVars, loadVars, greVars, pdVars, recVars, irVars>>
    \/ \E w \in Workers : PullAfterScraper(w) /\ UNCHANGED <<scrapeVars, loadVars, greVars, pdVars, recVars, irVars>>
    \/ \E w \in Workers : PullSpawnLoaderFails(w) /\ UNCHANGED <<scrapeVars, loadVars, greVars, pdVars, recVars, irVars>>
    \/ \E w \in Workers, rc \in ExitCodes :
          \E err \in (IF rc = 0 THEN {0} ELSE ErrLens) :
              LoaderExit(w, rc, err) /\ UNCHANGED <<scrapeVars, loadVars, greVars, pdVars, recVars, irVars>>
    \/ \E w \in Workers : PullAfterLoader(w) /\ UNCHANGED <<scrapeVars, loadVars, greVars, pdVars, recVars, irVars>>
    \/ \E w \in Workers, json \in BOOLEAN :
          AllIdle /\ UpdateRequest(w, json) /\ UNCHANGED <<scrapeVars, loadVars, greVars, pdVars, recVars, irVars>>
    \/ \E w \in Workers : UpdateGate(w) /\ UNCHANGED <<scrapeVars, loadVars, greVars, pdVars, recVars, irVars>>
    \/ \E w \in Workers : UpdateWriteFails(w) /\ UNCHANGED <<scrapeVars, loadVars, greVars, pdVars, recVars, irVars>>
    \/ Tick /\ UNCHANGED <<scrapeVars, loadVars, greVars, pdVars, recVars, irVars>>

SpecSeq == InitDash /\ [][NextSeq]_vars

\* extract_gre on one text
InitGre ==
    /\ feed = <<>> /\ stateFile = NoStr /\ ScrapeInit
    /\ LoadInit /\ DashOff /\ GreInit /\ ParseOff /\ RecOff /\ IrOff

NextGre ==
    \/ GreSingletons /\ UNCHANGED <<scrapeVars, loadVars, dashVars, pdVars, recVars, irVars>>
    \/ GreHints /\ UNCHANGED <<scrapeVars, loadVars, dashVars, pdVars, recVars, irVars>>
    \/ GreSuffix /\ UNCHANGED <<scrapeVars, loadVars, dashVars, pdVars, recVars, irVars>>

SpecGre == InitGre /\ [][NextGre]_vars

\* parse_added_on on one text
InitParse ==
    /\ feed = <<>> /\ stateFile = NoStr /\ ScrapeInit
    /\ LoadInit /\ DashOff /\ GreOff /\ ParseInit /\ RecOff /\ IrOff

NextParse ==
    \/ ParseEmpty /\ UNCHANGED <<scrapeVars, loadVars, dashVars, greVars, recVars, irVars>>
    \/ ParseTry /\ UNCHANGED <<scrapeVars, loadVars, dashVars, greVars, recVars, irVars>>
    \/ ParseNone /\ UNCHANGED <<scrapeVars, loadVars, dashVars, greVars, recVars, irVars>>

SpecParse == InitParse /\ [][NextParse]_vars

\* the GRE slots of one record, from any fields and any blob
InitRec ==
    /\ feed = <<>> /\ stateFile = NoStr /\ ScrapeInit
    /\ LoadInit /\ DashOff /\ GreInit /\ ParseOff /\ RecInit /\ IrOff

NextRec ==
    \/ RecStructured /\ UNCHANGED <<scrapeVars, loadVars, dashVars, greVars, pdVars, irVars>>
    \/ rec_pc = "extract" /\ GreSingletons
          /\ UNCHANGED <<scrapeVars, loadVars, dashVars, pdVars, recVars, irVars>>
    \/ rec_pc = "extract" /\ GreHints
          /\ UNCHANGED <<scrapeVars, loadVars, dashVars, pdVars, recVars, irVars>>
    \/ rec_pc = "extract" /\ GreSuffix
          /\ UNCHANGED <<scrapeVars, loadVars, dashVars, pdVars, recVars, irVars>>
    \/ RecFill /\ UNCHANGED <<scrapeVars, loadVars, dashVars, greVars, pdVars, irVars>>

SpecRec == InitRec /\ [][NextRec]_vars

\* is_running alone
InitLock ==
    /\ feed = <<>> /\ stateFile = NoStr /\ ScrapeInit
    /\ LoadInit /\ IrInit /\ GreOff /\ ParseOff /\ RecOff

NextLock ==
    \/ IsRunningCall /\ UNCHANGED <<scrapeVars, loadVars, greVars, pdVars, recVars>>

SpecLock == InitLock /\ [][NextLock]_vars

\* ------------------------------------------------------ dashboard parsing

NoCount == -1

\* re.findall(r"appended\s+(\d+)\s+records", ...): of the lines the scraper
\* prints only "Finished page P, appended N records so far." matches
\* ("(appended so far: N)" has no number after "appended")
LineMatches(l) == l.kind = "finished"

\* _parse_pull_counts, the scraper half: the last match, or None
parse_scraped(out) ==
    LET M == {i \in DOMAIN out : LineMatches(out[i])}
    IN IF M = {} THEN NoCount
       ELSE out[CHOOSE i \in M : \A j \in M : j <= i].n

\* ---------------------------------------------------------------- claims

Completed == pc = "exited" /\ exitCode = 0

DateOf(r) == strptime(r.date_added, FMT_ISO)

RunRecords(n) == {i \in DOMAIN jsonl : jsonl[i].run = n}

\* C1: the store never holds two rows with one url, and no INSERT of the
\* loader raises an error.
C1_UrlUniqueAndSilent ==
    /\ ~ld_raised
    /\ \A r1, r2 \in store : r1.url = r2.url => r1 = r2

\* C2: a run whose cutoff is the watermark written by the completed run
\* before it appends no record for a url which that run appended.
C2_RerunAppendsNoKnownUrl ==
    (/\ runNo >= 2
     /\ prevExit = 0
     /\ RunRecords(runNo - 1) # {}
     /\ since = strptime(wmBefore, FMT_ISO))
        => \A i \in RunRecords(runNo - 1), j \in RunRecords(runNo) :
               jsonl[i].url # jsonl[j].url

IsMaxOfRun(d) ==
    /\ \E i \in RunRecords(runNo) : DateOf(jsonl[i]) = d
    /\ \A i \in RunRecords(runNo) : DateLE(DateOf(jsonl[i]), d)

\* C3 as claimed: after a completed run, last_run.txt holds the maximum
\* date_added of the run's records if there is one, and is otherwise exactly
\* what it was before the run.
C3_WatermarkUntouchedWhenEmpty ==
    Completed =>
        IF appended > 0
        THEN stateFile.layout = "iso" /\ IsMaxOfRun(strptime(stateFile, FMT_ISO))
        ELSE stateFile = wmBefore

\* C3 as amended: after a completed run, last_run.txt holds the maximum
\* date_added of the run's records if there is one; otherwise it is what it
\* was before the run when the file existed, and today's date when it did not.
C3_WatermarkAfterRun ==
    Completed =>
        IF appended > 0
        THEN stateFile.layout = "iso" /\ IsMaxOfRun(strptime(stateFile, FMT_ISO))
        ELSE IF wmBefore # NoStr THEN stateFile = wmBefore
        ELSE stateFile = strftime_iso(Today)

C3_Witness ==
    /\ Completed
    /\ appended = 0
    /\ wmBefore = NoStr
    /\ stateFile = strftime_iso(Today)

HasValidDate(e) ==
    parse_added_on(find_added_on_detail(e)) # NoDate \/ card_added_of(e) # NoDate

\* C4: every record in the output is dated on or after the cutoff of the run
\* that appended it and within 2000-01-01 .. 2030-12-31, and belongs to an
\* entry whose detail page or card yields a valid date.
C4_AppendedDatesValid ==
    \A i \in DOMAIN jsonl :
        /\ DateLE(cutoffs[jsonl[i].run], DateOf(jsonl[i]))
        /\ DateLE(<<2000, 1, 1>>, DateOf(jsonl[i]))
        /\ DateLE(DateOf(jsonl[i]), <<2030, 12, 31>>)
        /\ HasValidDate(Catalog[jsonl[i].url])

C4_Witness ==
    /\ pc = "links"
    /\ idx > 1
    /\ ~HasValidDate(Catalog[links[idx - 1]])
    /\ lastDetail = "ok"
    /\ jsonl # <<>>

\* C5: every record's date_added is the date of the detail page's "Added on"
\* value when that parses to a valid date, and the card's date otherwise.
C5_DetailDateWins ==
    \A i \in DOMAIN jsonl :
        LET e == Catalog[jsonl[i].url]
            dd == parse_added_on(find_added_on_detail(e))
        IN jsonl[i].date_added =
               strftime_iso(IF dd # NoDate THEN dd ELSE card_added_of(e))

C5_Witness ==
    /\ \E i \in DOMAIN jsonl :
          /\ find_added_on_detail(Catalog[jsonl[i].url]) = NoStr
          /\ Catalog[jsonl[i].url].card = Str("long", 9, 7, 2025)
          /\ jsonl[i].date_added = Str("iso", 2025, 9, 7)
    /\ \E i \in DOMAIN jsonl :
          /\ parse_added_on(find_added_on_detail(Catalog[jsonl[i].url])) # NoDate
          /\ card_added_of(Catalog[jsonl[i].url]) # NoDate
          /\ card_added_of(Catalog[jsonl[i].url]) # DateOf(jsonl[i])

PageHasQualifying ==
    \E i \in DOMAIN links :
        /\ resolve_date(Catalog[links[i]]) # NoDate
        /\ DateLE(since, resolve_date(Catalog[links[i]]))

\* C6: when a listing page has been scanned to its end, the walker stops
\* exactly if the page has no entry dated on or after the cutoff, and goes to
\* the next page if it has one.
C6_StopIffNoQualifying ==
    [][(pc = "links" /\ idx > Len(links) /\ pc' # pc)
          => ((pc' = "summary") <=> ~PageHasQualifying)]_vars

\* C7: after a listing request that answered non-200 or gave a page without
\* links, the run issues no further listing or detail request.
C7_NoRequestAfterStop ==
    [][(lastList \in {"non200", "nolinks"} /\ runNo' = runNo)
          => (nListReq' = nListReq /\ nDetailReq' = nDetailReq)]_vars

C7_Witness ==
    /\ pc = "exited"
    /\ lastList = "nolinks"
    /\ nListReq >= 2
    /\ nDetailReq >= 1

\* C8: a run whose first listing request answered a non-200 status exits
\* with a non-zero status.
C8_FirstPageFailureIsFatal ==
    (pc = "exited" /\ firstList = "non200") => exitCode # 0

C10_FailedDetailOnlySkips ==
    [][(nDetailReq' = nDetailReq + 1 /\ lastDetail' \in {"non200", "raise"})
          => /\ jsonl' = jsonl
             /\ pc' = "links"
             /\ idx' = idx + 1
             /\ exitCode' = -1]_vars

\* C11: the output only grows; when an exception escapes the run, the step
\* that aborts it removes nothing, every record the run appended is in the
\* output, and the output is closed.
C11_PartialOutputKept ==
    [][/\ Len(jsonl') >= Len(jsonl)
       /\ SubSeq(jsonl', 1, Len(jsonl)) = jsonl
       /\ (exitCode' = 1 /\ exitCode # 1)
             => /\ jsonl' = jsonl
                /\ Cardinality(RunRecords(runNo)) = appended
                /\ ~f_open']_vars

C11_Witness ==
    /\ pc = "exited"
    /\ exitCode = 1
    /\ lastDetail = "raise"
    /\ appended >= 1
    /\ Cardinality(RunRecords(runNo)) = appended
    /\ ~f_open

\* the step hands a new request to worker w
Takes(w) ==
    /\ nReq' = nReq + 1
    /\ w_pc[w] = "idle"
    /\ \A v \in Workers : w_pc[v] = "idle" => w <= v

\* the step returns the response of an update-analysis request of worker w
UpdateAnswered(w) ==
    \/ Takes(w) /\ w_pc'[w] = "idle" /\ resp'[w].route = UPDATE
    \/ w_pc[w] = "u_gate" /\ w_pc'[w] = "idle"

\* the pull marker exists and the analysis marker is missing or older
GateOpen == pullOk # NoFile /\ (analysis = NoFile \/ analysis < pullOk)

NoopAnswer(w) ==
    w_json'[w] => (resp'[w].code = 409 /\ resp'[w].status = "noop")

\* C12 as claimed: an update-analysis request writes the analysis marker
\* only when the gate is open, and in every other case writes nothing and
\* is answered 409 'noop'.
C12_GateOrNoop ==
    [][\A w \in Workers :
          UpdateAnswered(w) =>
              /\ "analysis" \in wrote'[w] => GateOpen
              /\ ~GateOpen => /\ analysis' = analysis
                              /\ wrote'[w] = {}
                              /\ NoopAnswer(w)]_vars

\* C12 as amended: an update-analysis request that found no pull running
\* writes the analysis marker only when the gate is open, and otherwise
\* writes nothing and is answered 409 'noop'; a request that found a pull
\* running writes nothing either.
C12_GateOrNoopWhenIdle ==
    [][\A w \in Workers :
          UpdateAnswered(w) =>
              /\ "analysis" \in wrote'[w] => GateOpen
              /\ ~GateOpen => /\ analysis' = analysis
                              /\ wrote'[w] = {}
                              /\ w_pc[w] = "u_gate" => NoopAnswer(w)]_vars

C12_Witness ==
    /\ resp[1] = Resp(UPDATE, 409, "noop", "no-new-data")
    /\ resp[2] = Resp(UPDATE, 200, "ok", "")
    /\ wrote[1] = {}
    /\ wrote[2] = {"analysis"}
    /\ analysis = pullOk

\* C13: a pull-data or update-analysis request that finds is_running() true
\* is answered 409 'busy' (JSON clients) at once, and spawns no process,
\* leaves the lock file as it is and writes neither marker.
C13_BusyChangesNothing ==
    [][\A w \in Workers :
          (Takes(w) /\ lock.text = "int" /\ lock.pid \in alive) =>
              /\ w_pc'[w] = "idle"
              /\ w_json'[w] => (resp'[w].code = 409 /\ resp'[w].status = "busy")
              /\ lock' = lock
              /\ nSpawn' = nSpawn
              /\ alive' = alive
              /\ pullOk' = pullOk
              /\ analysis' = analysis
              /\ wrote'[w] = {}]_vars

C13_Witness ==
    /\ w_pc[1] = "p_wait_s"
    /\ scr[1] = Running
    /\ lock = LockText(w_pid[1])
    /\ resp[2] = Resp(PULL, 409, "busy", "")
    /\ nReq = 3

\* worker w has returned from a pull-data request that passed the busy check
PullDone(w) ==
    /\ w_pc[w] = "idle"
    /\ resp[w].route = PULL
    /\ resp[w] \notin {handle_when_running(TRUE), handle_when_running(FALSE)}

\* C14: in every pull the loader is started only after the scraper has
\* exited with status 0, and the success marker is written only by a pull
\* whose scraper and loader have both exited with status 0.
C14_MarkerOnlyAfterBoth ==
    \A w \in Workers :
        /\ scr[w] = NotRun => ldr[w] = NotRun
        /\ ldr[w] # NotRun => scr[w] = 0
        /\ "marker" \in wrote[w] => (scr[w] = 0 /\ ldr[w] = 0)
        /\ (PullDone(w) /\ (scr[w] # 0 \/ ldr[w] # 0)) => "marker" \notin wrote[w]

C14_Witness ==
    /\ wrote[1] = {"marker"}
    /\ scr[1] = 0 /\ ldr[1] = 0
    /\ pullOk = clock
    /\ w_pc[2] = "idle"
    /\ scr[2] = 0 /\ ldr[2] = 1
    /\ wrote[2] = {}

\* the step returns the response of a pull-data request of worker w that
\* had passed the busy check
PullReturns(w) ==
    /\ w_pc[w] \in {"p_lock", "p_spawn", "p_lockpid", "p_wait_s", "p_wait_l"}
    /\ w_pc'[w] = "idle"

\* C15: when a pull-data request that passed the busy check returns, on
\* success, on a non-zero exit or on a spawn error, the lock file is absent.
C15_LockAbsentAtReturn ==
    [][\A w \in Workers : PullReturns(w) => lock'.text = "none"]_vars

C15_Witness ==
    /\ w_pc[1] = "idle"
    /\ resp[1].msg = "Command failed"
    /\ scr[1] = 1
    /\ w_pid[1] # 0
    /\ lock.text = "none"

\* C16: a pull that has returned after a non-zero exit of its scraper or
\* loader answers 'Command failed' with that exit code and the tail of the
\* captured error output; a pull that has returned after a spawn error
\* answers 'Pull failed'; JSON clients get 500 and status 'error' in both.
C16_TwoKindsOfFailure ==
    \A w \in Workers :
        PullDone(w) =>
            LET failedRc == IF scr[w] # 0 THEN scr[w] ELSE ldr[w]
                cmdFailed == scr[w] \in {1} \/ ldr[w] \in {1}
                spawnFailed == scr[w] = NotRun \/ (scr[w] = 0 /\ ldr[w] = NotRun)
            IN /\ cmdFailed =>
                    /\ resp[w].msg = "Command failed"
                    /\ resp[w].rc = failedRc
                    /\ resp[w].err =
                         (IF w_err[w] > 500 THEN 500 ELSE w_err[w])
               /\ spawnFailed => resp[w].msg = "Pull failed"
               /\ (cmdFailed \/ spawnFailed) =>
                    (w_json[w] => resp[w].code = 500 /\ resp[w].status = "error")
               /\ ~(cmdFailed \/ spawnFailed) => resp[w].msg \notin
                    {"Command failed", "Pull failed"}

C16_Witness ==
    /\ w_pc[1] = "idle" /\ w_pc[2] = "idle"
    /\ w_json[1] /\ w_json[2]
    /\ ldr[1] = 1
    /\ w_err[1] > 500
    /\ resp[1].msg = "Command failed"
    /\ resp[1].err = 500
    /\ scr[2] = NotRun
    /\ resp[2].msg = "Pull failed"

GreDone == gre_pc = "done"

\* what the labeled-singleton patterns capture in the text
FoundQ == find_singleton(gre_text, "Q")

FoundV == find_singleton(gre_text, "V")

FoundW == find_singleton(gre_text, "W")

\* C17: when a labeled singleton captures at least one score, extract_gre
\* returns the captured values in their slots, the other slots absent, and
\* consults no other strategy.
C17_SingletonShortCircuits ==
    (GreDone /\ (FoundQ # NoScore \/ FoundV # NoScore \/ FoundW # NoScore))
        => /\ gre_ret = <<FoundQ, FoundV, FoundW>>
           /\ gre_trail = <<1>>

\* the hinted triples of the text whose three numbers are scores
HintedTriples ==
    { i \in DOMAIN gre_text :
        /\ gre_text[i].kind = "hint"
        /\ gre_text[i].a.digits \in {2, 3} /\ gre_text[i].a.frac < 0
        /\ gre_text[i].b.digits \in {2, 3} /\ gre_text[i].b.frac < 0
        /\ gre_text[i].c.digits = 1 /\ gre_text[i].c.int <= 6 }

Tenths(n) == n.int * 10 + (IF n.frac < 0 THEN 0 ELSE n.frac)

\* C18: for a text with one hinted triple a/b/c and no labeled singleton,
\* extract_gre returns quant=a, verbal=b, writing=c under (Q/V/W) and
\* quant=b, verbal=a, writing=c under (V/Q/W).
C18_HintDecidesSlots ==
    (/\ GreDone
     /\ FoundQ = NoScore /\ FoundV = NoScore /\ FoundW = NoScore
     /\ Cardinality(HintedTriples) = 1)
        => LET tok == gre_text[CHOOSE i \in HintedTriples : TRUE]
           IN gre_ret =
                 IF tok.tag = "QVW"
                 THEN <<Tenths(tok.a), Tenths(tok.b), Tenths(tok.c)>>
                 ELSE <<Tenths(tok.b), Tenths(tok.a), Tenths(tok.c)>>

C18_Witness ==
    /\ GreDone
    /\ gre_text = <<Hint("VQW", NumText(165, 3, -1), NumText(170, 3, -1),
                         NumText(5, 1, 0))>>
    /\ gre_ret = <<1700, 1650, 50>>
    /\ gre_trail = <<1, 2>>

FormatOrder == <<"%B %d, %Y", "%b %d, %Y", "%Y-%m-%d", "%m/%d/%Y", "%d-%b-%Y">>

Parses == {i \in DOMAIN FormatOrder : strptime(pd_in, FormatOrder[i]) # NoDate}

FirstParse == CHOOSE i \in Parses : \A j \in Parses : i <= j

\* C19: parse_added_on gives the text to the five formats in the order long
\* month, abbreviated month, YYYY-MM-DD, MM/DD/YYYY, D-Mon-YYYY up to the
\* first that parses and to none after it; it returns that date when it lies
\* in 2000-01-01 .. 2030-12-31 and None when it does not or when no format
\* parses; it never returns a date outside that range.
C19_FirstFormatWins ==
    pd_pc = "done" =>
        /\ pd_ret = parse_added_on(pd_in)
        /\ pd_ret # NoDate =>
              (DateLE(<<2000, 1, 1>>, pd_ret) /\ DateLE(pd_ret, <<2030, 12, 31>>))
        /\ IF pd_in = NoStr THEN pd_tried = <<>> /\ pd_ret = NoDate
           ELSE IF Parses = {} THEN pd_tried = FormatOrder /\ pd_ret = NoDate
           ELSE LET d == strptime(pd_in, FormatOrder[FirstParse])
                IN /\ pd_tried = SubSeq(FormatOrder, 1, FirstParse)
                   /\ pd_ret = IF /\ DateLE(<<2000, 1, 1>>, d)
                                  /\ DateLE(d, <<2030, 12, 31>>)
                               THEN d ELSE NoDate

C19_Witness ==
    /\ pd_pc = "done"
    /\ pd_in = Str("abbr", 5, 1, 2025)
    /\ Parses = {1, 2}
    /\ pd_tried = <<"%B %d, %Y">>
    /\ pd_ret = <<2025, 5, 1>>

\* C20: the cutoff of a run is the --since date when one is given and is a
\* valid YYYY-MM-DD date, else the date in last_run.txt as it is when the run
\* starts if the file exists and parses, else today minus 7 days; it is fixed
\* when the run starts and no later step of the run changes it.
C20_CutoffPriority ==
    [][/\ runNo' = runNo + 1 =>
            since' =
               IF cli_since'.layout = "iso"
                  /\ ValidYMD(cli_since'.a, cli_since'.b, cli_since'.c)
               THEN <<cli_since'.a, cli_since'.b, cli_since'.c>>
               ELSE IF stateFile.layout = "iso"
                       /\ ValidYMD(stateFile.a, stateFile.b, stateFile.c)
               THEN <<stateFile.a, stateFile.b, stateFile.c>>
               ELSE <<2025, 9, 7>>
       /\ runNo' = runNo => (since' = since /\ cli_since' = cli_since)]_vars

C20_Witness ==
    /\ pc = "links"
    /\ runNo = 2
    /\ cli_since = Str("iso", 2025, 1, 1)
    /\ wmBefore = Str("iso", 2025, 9, 10)
    /\ stateFile = wmBefore
    /\ since = <<2025, 1, 1>>
\* C21: a detail request that is not the first of its run is issued only
\* after the inter-request sleep has run since the detail request before it,
\* also when that one failed or its entry was rejected.
C21_SleepBetweenDetailFetches ==
    [][(nDetailReq' = nDetailReq + 1 /\ nDetailReq >= 1) => slept]_vars

\* C22: a call of main ends by printing, as "Inserted rows: N", the number
\* of rows the call added to the table; a second load of a file whose rows
\* are stored reports 0.
C22_CountIsRowsInserted ==
    [][(ld_pc' = "exited" /\ ld_pc # "exited")
          => ld_out' = Cardinality(store') - Cardinality(store)]_vars

\* listing pages that have entry links
NumPages(f) == (Len(f) + PageSize - 1) \div PageSize

\* what a run in progress has left to do at most: the pages not yet listed,
\* then the links of the page not yet looked at
Rank ==
    CASE pc = "list" ->
            2 + (NumPages(feed) + 1 - page) * (PageSize + 3) + PageSize + 1
      [] pc = "links" ->
            2 + (NumPages(feed) + 1 - page) * (PageSize + 3) + (Len(links) + 1 - idx)
      [] pc = "summary" -> 1
      [] OTHER -> 0

InRun == pc \in {"list", "links", "summary"}

\* C23: with finitely many listing pages and requests that return, a run
\* terminates: every step of a run leaves less to do, and the run reaches its
\* end with the output closed, through the summary and watermark step unless
\* a request raised.
C23_RunTerminates ==
    /\ [][InRun => (Rank' < Rank /\ Rank' >= 0)]_vars
    /\ InRun ~> (/\ pc = "exited"
                 /\ ~f_open
                 /\ (exitCode = 0 \/ lastList = "raise" \/ lastDetail = "raise"))

\* a run that appended from listing page 1, found page 2 without links and
\* ended with the summary
C23_Witness ==
    /\ pc = "exited"
    /\ exitCode = 0
    /\ ~f_open
    /\ page = 2
    /\ nListReq = 2
    /\ lastList = "nolinks"
    /\ appended >= 1

\* the structured value of a slot as the field's text gives it
StructuredQ ==
    IF rec_fields.q.kind = "num" THEN Tenths(rec_fields.q.n) ELSE NoScore

StructuredV ==
    IF rec_fields.v.kind = "num" THEN Tenths(rec_fields.v.n) ELSE NoScore

StructuredAW ==
    IF rec_fields.aw.kind = "num" THEN Tenths(rec_fields.aw.n) ELSE NoScore

ExtractorConsulted == gre_pc # "start"

\* C24: in a resolved record a slot whose structured field parses keeps the
\* structured value whatever the blob holds; extract_gre is consulted only
\* when a slot is absent, and its results go to the absent slots only.
C24_StructuredSlotsKept ==
    /\ ExtractorConsulted
          => (StructuredQ = NoScore \/ StructuredV = NoScore \/ StructuredAW = NoScore)
    /\ rec_pc = "done"
          => /\ rec_gre[1] = IF StructuredQ # NoScore THEN StructuredQ
                             ELSE IF ExtractorConsulted THEN gre_ret[1] ELSE NoScore
             /\ rec_gre[2] = IF StructuredV # NoScore THEN StructuredV
                             ELSE IF ExtractorConsulted THEN gre_ret[2] ELSE NoScore
             /\ rec_gre[3] = IF StructuredAW # NoScore THEN StructuredAW
                             ELSE IF ExtractorConsulted THEN gre_ret[3] ELSE NoScore

\* a record with a structured writing score of 0 and no structured quant
\* score, whose blob gives other values for both
C24_Witness ==
    /\ rec_pc = "done"
    /\ rec_fields.aw = NumField(0, 1, -1)
    /\ rec_fields.q = NoField
    /\ gre_ret[1] = 1700
    /\ gre_ret[3] = 45
    /\ rec_gre[1] = 1700
    /\ rec_gre[3] = 0

\* C25: a call of main with a limit L >= 0 executes at most L INSERT
\* statements, on the first records of the source in order.
C25_AtMostLimitInserts ==
    ld_limit # NoLimit => (executed <= ld_limit /\ ld_pos <= executed + 1)

Returned == ir_pc = "returned"

\* the lock file held the decimal text of the pid of a live process
HeldLivePid == ir_lock0.text = "int" /\ ir_lock0.pid >= 1 /\ ir_lock0.pid \in alive

\* C26: is_running returns true only when the lock file holds the pid of a
\* live process, and then leaves the file as it is; with the file missing
\* it returns false and creates nothing; with text that is no integer, or
\* the pid of no live process, it removes the file and returns false.
C26_IsRunningByLockContent ==
    Returned =>
        /\ ir_ret => (HeldLivePid /\ lock = ir_lock0)
        /\ ir_lock0 = NoLock => (~ir_ret /\ lock = NoLock)
        /\ (ir_lock0 # NoLock /\ ~HeldLivePid) => (~ir_ret /\ lock = NoLock)

\* the scraper or the loader of worker w's pull is running
ChildRunning(w) == scr[w] = Running \/ ldr[w] = Running

\* C27: while the scraper or the loader of a pull is running, a request that
\* reaches another worker finds is_running() true: it is answered busy and
\* leaves the lock file as it is.
C27_BusyWhilePullRuns ==
    [][\A w, v \in Workers :
          (w # v /\ ChildRunning(w) /\ Takes(v)) =>
              /\ w_pc'[v] = "idle"
              /\ w_json'[v] => (resp'[v].code = 409 /\ resp'[v].status = "busy")
              /\ lock' = lock]_vars

\* C28: of two concurrent pull-data requests at most one spawns the
\* scraper: two scraper processes never run at the same time.
C28_OneScraperAtATime ==
    Cardinality({w \in Workers : scr[w] = Running}) <= 1

\* the run took its cutoff from last_run.txt: no valid --since was given and
\* the file held a date
CutoffFromWatermark ==
    /\ ~(cli_since.layout = "iso" /\ ValidYMD(cli_since.a, cli_since.b, cli_since.c))
    /\ wmBefore.layout = "iso"
    /\ ValidYMD(wmBefore.a, wmBefore.b, wmBefore.c)

\* C29: a completed run that took its cutoff from the persisted watermark
\* leaves a watermark that is a date not earlier than the one it found.
C29_WatermarkNeverDecreases ==
    (Completed /\ CutoffFromWatermark) =>
        /\ stateFile.layout = "iso"
        /\ DateLE(<<wmBefore.a, wmBefore.b, wmBefore.c>>,
                  <<stateFile.a, stateFile.b, stateFile.c>>)

\* the second of two completed runs without --since has moved the watermark
\* the first one left at 2025-01-05 to 2025-09-07
C29_Witness ==
    /\ Completed
    /\ runNo = 2
    /\ prevExit = 0
    /\ cli_since = NoStr
    /\ appended = 2
    /\ wmBefore = Str("iso", 2025, 1, 5)
    /\ stateFile = Str("iso", 2025, 9, 7)

\* the step ends a pull of worker w with the success marker written
PullSucceeds(w) == w_pc[w] = "p_wait_l" /\ w_pc'[w] = "idle" /\ ldr[w] = 0

\* the step is the gate of an update-analysis request of worker w
GateStep(w) == w_pc[w] = "u_gate" /\ w_pc'[w] = "idle"

====
